---- MODULE Spec2Model ----
(***************************************************************************)
(* Model of gs_quant/markets/historical.py: HistoricalPricingContext       *)
(* (construction, resolve_fields, calc) and HistoricalPricingFuture        *)
(* (_set_result).                                                          *)
(*                                                                         *)
(* Dates are small integers.  An optional argument is a set: {} is None,   *)
(* {x} is the supplied value x.                                            *)
(***************************************************************************)
EXTENDS Integers, Sequences, FiniteSets, TLC

\* Bound: dates are 1..MaxDates and a date sequence has at most MaxDates dates.
MaxDates == 3

Dates == 1..MaxDates

\* dt.date.today()
Today == MaxDates

IsInjective(s) == \A i, j \in 1..Len(s) : i # j => s[i] # s[j]

\* The date sequences a caller supplies as dates=...: distinct dates, any order.
DateSeqs == {s \in UNION {[1..n -> Dates] : n \in 0..MaxDates} : IsInjective(s)}

\* The constructor arguments: each of start, end and dates given or None.
ArgSet ==
    [start : {{}} \cup {{d} : d \in Dates},
     end   : {{}} \cup {{d} : d \in Dates},
     dates : {{}} \cup {{s} : s \in DateSeqs},
     is_async : BOOLEAN]

\* The argument sets calc and resolve_fields are followed from.  The branch
\* of line 99 never reads end, so of the argument sets that differ only in
\* an end given beside dates the one with end None stands for them all.
ContextArgs == {a \in ArgSet : (a.start = {} /\ a.dates # {}) => a.end = {}}

----------------------------------------------------------------------------
(* Values carried by child futures *)

\* The value slot of a future that has not resolved.
NoValue == [type |-> "NoValue"]

\* gs_quant.risk.ErrorValue for the computation of date d.
ErrorValue(d) == [type |-> "ErrorValue", date |-> d]

\* An Exception instance carried as a value for date d.
ExceptionValue(d) == [type |-> "Exception", date |-> d]

\* A single-measure result of measure k for date d.
SingleMeasure(d, k) == [type |-> "Single", date |-> d, key |-> k]

\* MultipleRiskMeasureResult for date d over the measures K.
MultipleRiskMeasureResult(d, K) ==
    [type |-> "Multi", date |-> d, m |-> [k \in K |-> SingleMeasure(d, k)]]

\* Iteration order of the risk measures (dict order of the request).
KeyOrder == <<"a", "b">>

\* The outcomes one per-date computation can produce.
Kinds == {"ErrorValue", "Exception", "Single", "MultiA", "MultiAB"}

ValueOf(kind, d) ==
    CASE kind = "ErrorValue" -> ErrorValue(d)
      [] kind = "Exception"  -> ExceptionValue(d)
      [] kind = "Single"     -> SingleMeasure(d, "a")
      [] kind = "MultiA"     -> MultipleRiskMeasureResult(d, {"a"})
      [] kind = "MultiAB"    -> MultipleRiskMeasureResult(d, {"a", "b"})

\* compose: the series built from the items, in the order given.
Compose(items) == [type |-> "Composed", items |-> items]

----------------------------------------------------------------------------
(* HistoricalPricingContext.__init__ *)

\* date_range(start, end, calendars=()): the dates from start to end.
date_range_of(start, end) == [i \in 1..(IF end >= start THEN end - start + 1 ELSE 0) |-> start + i - 1]

TheOne(S) == CHOOSE x \in S : TRUE

\* InitContext without the start-and-dates check: dates win when both are given.
InitContextBothAccepted(a) ==
    IF a.dates # {}
    THEN [ok |-> TRUE, range |-> TheOne(a.dates), end |-> a.end]
    ELSE IF a.start # {}
         THEN LET end == IF a.end = {} THEN Today ELSE TheOne(a.end)
              IN  [ok |-> TRUE, range |-> date_range_of(TheOne(a.start), end), end |-> {end}]
         ELSE [ok |-> FALSE, range |-> <<>>, end |-> {}]

\* The constructor: ok = FALSE is ValueError.
InitContext(a) ==
    IF a.start # {}
    THEN IF a.dates # {}
         THEN [ok |-> FALSE, range |-> <<>>, end |-> {}]
         ELSE LET end == IF a.end = {} THEN Today ELSE TheOne(a.end)
              IN  [ok |-> TRUE, range |-> date_range_of(TheOne(a.start), end), end |-> {end}]
    ELSE IF a.dates # {}
         THEN [ok |-> TRUE, range |-> TheOne(a.dates), end |-> a.end]
         ELSE [ok |-> FALSE, range |-> <<>>, end |-> {}]

----------------------------------------------------------------------------
(* HistoricalPricingContext.resolve_fields *)

\* No resolve_fields call has been made.
NoCall == [called |-> FALSE, in_place |-> FALSE, raised |-> FALSE, delegated |-> FALSE]

\* resolve_fields without the in_place test.
ResolveFieldsUnchecked(in_place) ==
    [called |-> TRUE, in_place |-> in_place, raised |-> FALSE, delegated |-> TRUE]

\* resolve_fields: raised is RuntimeError, delegated is the call of
\* super().resolve_fields(priceable, in_place).
ResolveFieldsOutcome(in_place) ==
    IF in_place
    THEN [called |-> TRUE, in_place |-> in_place, raised |-> TRUE, delegated |-> FALSE]
    ELSE [called |-> TRUE, in_place |-> in_place, raised |-> FALSE, delegated |-> TRUE]

----------------------------------------------------------------------------
(* HistoricalPricingFuture._set_result *)

\* IsResolved not waiting: every future is taken as resolved.
IsResolvedNoWait(f) == f.state \in {"PENDING", "FINISHED"}

\* f.result() returns only once f has resolved.
IsResolved(f) == f.state = "FINISHED"

\* Results collected in the reverse of the child order.
ResultsReversed(fs) == [i \in 1..Len(fs) |-> fs[Len(fs) + 1 - i].value]

\* results = [f.result() for f in self._futures]
Results(fs) == [i \in 1..Len(fs) |-> fs[i].value]

\* IsProper forgetting ErrorValue.
IsProperExceptionOnly(r) == r.type \notin {"Exception"}

\* not isinstance(r, (ErrorValue, Exception))
IsProper(r) == r.type \notin {"ErrorValue", "Exception"}

Min(S) == CHOOSE x \in S : \A y \in S : x <= y

Max(S) == CHOOSE x \in S : \A y \in S : x >= y

\* Base taking the last proper result instead of the first.
BaseLast(results) ==
    LET ok == {i \in 1..Len(results) : IsProper(results[i])}
    IN  IF ok = {} THEN [type |-> "None"] ELSE results[Max(ok)]

\* base = next((r for r in results if not isinstance(r, (ErrorValue, Exception))), None)
Base(results) ==
    LET ok == {i \in 1..Len(results) : IsProper(results[i])}
    IN  IF ok = {} THEN [type |-> "None"] ELSE results[Min(ok)]

Raise == [type |-> "Raise"]

\* GetItem substituting the value itself where it cannot be indexed by k.
GetItemLenient(r, k) ==
    IF r.type = "Multi"
    THEN IF k \in DOMAIN r.m THEN r.m[k] ELSE r
    ELSE r

\* r[k]: only a MultipleRiskMeasureResult holding k can be indexed by k.
GetItem(r, k) ==
    IF r.type = "Multi"
    THEN IF k \in DOMAIN r.m THEN r.m[k] ELSE Raise
    ELSE Raise

\* Keys stopping after the first key.
KeysFirstOnly(base) == SubSeq(SelectSeq(KeyOrder, LAMBDA k : k \in DOMAIN base.m), 1, 1)

\* base.keys(), in iteration order.
Keys(base) == SelectSeq(KeyOrder, LAMBDA k : k \in DOMAIN base.m)

\* (r[k] for r in results), as far as it can be consumed: the items before
\* the first r[k] that raises.
ItemsFor(results, k) ==
    LET all == [i \in 1..Len(results) |-> GetItem(results[i], k)]
        bad == {i \in 1..Len(results) : all[i] = Raise}
    IN  IF bad = {} THEN [raised |-> FALSE, items |-> all]
        ELSE [raised |-> TRUE, items |-> SubSeq(all, 1, Min(bad) - 1)]

\* FirstResult answering None for an empty list instead of raising.
FirstResultOrNone(results) == IF Len(results) = 0 THEN [type |-> "None"] ELSE results[1]

\* results[0]: IndexError on an empty list.
FirstResult(results) == IF Len(results) = 0 THEN Raise ELSE results[1]

\* SingleComposeArgs dropping the failed entries.
SingleComposeArgsNoErrors(results) == SelectSeq(results, LAMBDA r : r.type # "ErrorValue")

\* base.compose(results): the list handed to compose for a single-measure base.
SingleComposeArgs(results) == results

\* The outcome of the body of _set_result on the child values:
\* raised (an exception leaves the method), value (the argument of
\* self._result_future.set_result) and calls (the compose invocations made).
SetResultOutcome(results) ==
    LET base == Base(results) IN
    IF base.type = "None"
    THEN IF FirstResult(results) = Raise
         THEN [raised |-> TRUE, value |-> NoValue, calls |-> <<>>]
         ELSE [raised |-> FALSE, value |-> FirstResult(results), calls |-> <<>>]
    ELSE IF base.type = "Multi"
    THEN LET keys == Keys(base)
             badk == {j \in 1..Len(keys) : ItemsFor(results, keys[j]).raised}
             last == IF badk = {} THEN Len(keys) ELSE Min(badk)
             calls == [j \in 1..last |->
                          [on     |-> base.m[keys[j]],
                           items  |-> ItemsFor(results, keys[j]).items,
                           raised |-> ItemsFor(results, keys[j]).raised]]
         IN  IF badk = {}
             THEN [raised |-> FALSE,
                   value  |-> [type |-> "Multi",
                               m |-> [k \in {keys[j] : j \in 1..Len(keys)} |->
                                         Compose(ItemsFor(results, k).items)]],
                   calls  |-> calls]
             ELSE [raised |-> TRUE, value |-> NoValue, calls |-> calls]
    ELSE [raised |-> FALSE,
          value  |-> Compose(SingleComposeArgs(results)),
          calls  |-> <<[on |-> base, items |-> SingleComposeArgs(results), raised |-> FALSE]>>]

----------------------------------------------------------------------------
VARIABLES
    args,          \* the constructor arguments
    ctx,           \* "new" (__init__ not run yet), "constructed" or "ValueError"
    date_range,    \* self.__date_range
    end_used,      \* the end date the constructor settled on
    pc,            \* position of calc
    idx,           \* calc: index of the date being issued
    scope,         \* calc: pricing dates of the open PricingContext scopes
    submit_exc,    \* calc: the submission of the current date raised
    futures,       \* calc: the list of child futures
    submissions,   \* pricing dates under which a computation was submitted
    created,       \* the HistoricalPricingFuture has been constructed
    pending,       \* composite: children whose completion has not been counted
    cbs,           \* children whose done-callback is due to run
    fireCount,     \* number of _set_result invocations
    setCount,      \* number of set_result calls on the outward future
    composeCalls,  \* the compose invocations made
    composeRaised, \* _set_result ended with an exception
    result_future, \* the outward future
    prev_pending,  \* calc, lines 111-117: the outward future of the call before is pending
    rf_call        \* the caller's latest resolve_fields call since calc last began

vars == <<args, ctx, date_range, end_used, pc, idx, scope, submit_exc, futures,
          submissions, created, pending, cbs, fireCount, setCount, composeCalls,
          composeRaised, result_future, prev_pending, rf_call>>

ctxVars == <<args, ctx, date_range, end_used>>
calcVars == <<pc, idx, scope, submit_exc, submissions, prev_pending, rf_call>>
compVars == <<fireCount, setCount, composeCalls, composeRaised, result_future>>

\* No calc or resolve_fields call has been made and no future exists.
NothingCalled ==
    /\ pc = "idle"
    /\ idx = 0
    /\ scope = {}
    /\ submit_exc = FALSE
    /\ futures = <<>>
    /\ submissions = <<>>
    /\ created = FALSE
    /\ pending = {}
    /\ cbs = {}
    /\ fireCount = 0
    /\ setCount = 0
    /\ composeCalls = <<>>
    /\ composeRaised = FALSE
    /\ result_future = [state |-> "PENDING", value |-> NoValue]
    /\ prev_pending = FALSE
    /\ rf_call = NoCall

\* The state after construction.
Init ==
    /\ args \in ContextArgs
    /\ LET c == InitContext(args) IN
        /\ ctx = IF c.ok THEN "constructed" ELSE "ValueError"
        /\ date_range = c.range
        /\ end_used = c.end
    /\ NothingCalled

\* self._set_result() run on the child futures fs.  The method has no
\* handler: when the composition raises, set_result is not reached and the
\* outward future is left as it was.
RunSetResult(fs) ==
    /\ \A i \in 1..Len(fs) : IsResolved(fs[i])
    /\ LET out == SetResultOutcome(Results(fs)) IN
        /\ fireCount' = fireCount + 1
        /\ composeCalls' = composeCalls \o out.calls
        /\ composeRaised' = (composeRaised \/ out.raised)
        /\ IF out.raised
           THEN UNCHANGED <<result_future, setCount>>
           ELSE /\ result_future' = [state |-> "FINISHED", value |-> out.value]
                /\ setCount' = setCount + 1

\* The caller is not inside calc.
CallerFree == pc \in {"idle", "done", "raised"}

\* The outward future of the call before, as the caller leaves it behind
\* when it calls calc again: it stays with whoever holds it, resolved or not.
LeftBehind == created /\ result_future.state = "PENDING"

\* The composite and outward future a calc call starts from: none yet.
FreshComposite ==
    /\ created' = FALSE
    /\ pending' = {}
    /\ cbs' = {}
    /\ fireCount' = 0
    /\ setCount' = 0
    /\ composeCalls' = <<>>
    /\ composeRaised' = FALSE
    /\ result_future' = [state |-> "PENDING", value |-> NoValue]

\* CalcBegin keeping the list of the previous call instead of a new one.
CalcBeginSharedList ==
    /\ ctx = "constructed"
    /\ CallerFree
    /\ prev_pending' = LeftBehind
    /\ rf_call' = NoCall
    /\ futures' = futures
    /\ submissions' = <<>>
    /\ submit_exc' = FALSE
    /\ FreshComposite
    /\ idx' = 1
    /\ pc' = IF Len(date_range) = 0 THEN "construct" ELSE "enter"
    /\ UNCHANGED <<ctxVars, scope>>

\* calc: futures = [] and the start of the loop, whatever the state of the
\* composite of the call before.  The state holds the composite of the
\* latest call; of the one before it, prev_pending records how it was left,
\* until line 119 builds the composite of this call.
CalcBegin ==
    /\ ctx = "constructed"
    /\ CallerFree
    /\ prev_pending' = LeftBehind
    /\ rf_call' = NoCall
    /\ futures' = <<>>
    /\ submissions' = <<>>
    /\ submit_exc' = FALSE
    /\ FreshComposite
    /\ idx' = 1
    /\ pc' = IF Len(date_range) = 0 THEN "construct" ELSE "enter"
    /\ UNCHANGED <<ctxVars, scope>>

\* resolve_fields(priceable, in_place) called on the context, in whatever
\* state the composites of earlier calc calls are.
ResolveFields(in_place) ==
    /\ ctx = "constructed"
    /\ CallerFree
    /\ rf_call' = ResolveFieldsOutcome(in_place)
    /\ UNCHANGED <<ctxVars, pc, idx, scope, submit_exc, submissions, prev_pending, futures,
                   created, pending, cbs, compVars>>

\* with PricingContext(pricing_date=date, ...) as pc: __enter__
ScopeEnter ==
    /\ pc = "enter"
    /\ scope' = scope \cup {date_range[idx]}
    /\ pc' = "submit"
    /\ UNCHANGED <<ctxVars, idx, submit_exc, futures, submissions, created,
                   pending, cbs, compVars, prev_pending, rf_call>>

\* Submit issuing the computation of a date twice.
SubmitTwice ==
    /\ pc = "submit"
    /\ \E d \in scope :
        /\ futures' = futures \o <<[date |-> d, state |-> "PENDING", value |-> NoValue],
                                   [date |-> d, state |-> "PENDING", value |-> NoValue]>>
        /\ submissions' = submissions \o <<d, d>>
    /\ pc' = "exit"
    /\ UNCHANGED <<ctxVars, idx, scope, submit_exc, created, pending, cbs, compVars,
                   prev_pending, rf_call>>

\* futures.append(pc.calc(priceable, risk_measure)), pc.calc returning a future
Submit ==
    /\ pc = "submit"
    /\ \E d \in scope :
        /\ futures' = Append(futures, [date |-> d, state |-> "PENDING", value |-> NoValue])
        /\ submissions' = Append(submissions, d)
    /\ pc' = "exit"
    /\ UNCHANGED <<ctxVars, idx, scope, submit_exc, created, pending, cbs, compVars,
                   prev_pending, rf_call>>

\* pc.calc(priceable, risk_measure) raising
SubmitRaise ==
    /\ pc = "submit"
    /\ submit_exc' = TRUE
    /\ pc' = "exit"
    /\ UNCHANGED <<ctxVars, idx, scope, futures, submissions, created, pending,
                   cbs, compVars, prev_pending, rf_call>>

\* ScopeExit leaving the scope open when the submission raised.
ScopeExitLeakOnRaise ==
    /\ pc = "exit"
    /\ IF submit_exc
       THEN /\ pc' = "raised"
            /\ idx' = idx
            /\ scope' = scope
       ELSE /\ idx' = idx + 1
            /\ scope' = scope \ {date_range[idx]}
            /\ pc' = IF idx + 1 > Len(date_range) THEN "construct" ELSE "enter"
    /\ UNCHANGED <<ctxVars, submit_exc, futures, submissions, created, pending,
                   cbs, compVars, prev_pending, rf_call>>

\* with PricingContext(...): __exit__, then the next iteration or the
\* propagation of the exception
ScopeExit ==
    /\ pc = "exit"
    /\ scope' = scope \ {date_range[idx]}
    /\ IF submit_exc
       THEN /\ pc' = "raised"
            /\ idx' = idx
       ELSE /\ idx' = idx + 1
            /\ pc' = IF idx + 1 > Len(date_range) THEN "construct" ELSE "enter"
    /\ UNCHANGED <<ctxVars, submit_exc, futures, submissions, created, pending,
                   cbs, compVars, prev_pending, rf_call>>

\* HistoricalPricingFuture(futures, result_future=...), the composite the
\* state is about from here on: the children still
\* pending are counted; with none pending the composition runs at once, and
\* an exception of it leaves the constructor and calc.
CreateComposite ==
    /\ pc = "construct"
    /\ created' = TRUE
    /\ pending' = {i \in 1..Len(futures) : ~IsResolved(futures[i])}
    /\ IF pending' = {}
       THEN /\ RunSetResult(futures)
            /\ pc' = IF composeRaised' THEN "raised" ELSE "return"
       ELSE /\ pc' = "return"
            /\ UNCHANGED compVars
    /\ prev_pending' = FALSE
    /\ UNCHANGED <<ctxVars, idx, scope, submit_exc, futures, submissions, cbs, rf_call>>

\* ReturnCalcResult never awaiting the outward future.
ReturnCalcResultNoWait ==
    /\ pc = "return"
    /\ pc' = "done"
    /\ UNCHANGED <<ctxVars, idx, scope, submit_exc, futures, submissions, created,
                   pending, cbs, compVars, prev_pending, rf_call>>

\* self._return_calc_result(...): the future when is_async, else its result
\* (awaiting the outward future).
ReturnCalcResult ==
    /\ pc = "return"
    /\ args.is_async \/ result_future.state = "FINISHED"
    /\ pc' = "done"
    /\ UNCHANGED <<ctxVars, idx, scope, submit_exc, futures, submissions, created,
                   pending, cbs, compVars, prev_pending, rf_call>>

\* The computation of child i resolves with an outcome of some kind.
Resolve(i, kind) ==
    /\ i \in 1..Len(futures)
    /\ futures[i].state = "PENDING"
    /\ futures' = [futures EXCEPT ![i] = [date |-> futures[i].date, state |-> "FINISHED",
                                          value |-> ValueOf(kind, futures[i].date)]]
    /\ cbs' = IF created /\ i \in pending THEN cbs \cup {i} ELSE cbs
    /\ UNCHANGED <<ctxVars, calcVars, created, pending, compVars>>

\* ChildDone deciding "last" from the children's states instead of the tally:
\* two completions can each find every child resolved.
ChildDoneUntallied(i) ==
    /\ i \in cbs
    /\ cbs' = cbs \ {i}
    /\ pending' = pending \ {i}
    /\ IF \A j \in 1..Len(futures) : futures[j].state = "FINISHED"
       THEN RunSetResult(futures)
       ELSE UNCHANGED compVars
    /\ UNCHANGED <<ctxVars, calcVars, futures, created>>

\* The completion of child i is counted; the last one runs the composition.
ChildDone(i) ==
    /\ i \in cbs
    /\ cbs' = cbs \ {i}
    /\ pending' = pending \ {i}
    /\ IF pending' = {}
       THEN RunSetResult(futures)
       ELSE UNCHANGED compVars
    /\ UNCHANGED <<ctxVars, calcVars, futures, created>>

Next ==
    \/ CalcBegin
    \/ ScopeEnter
    \/ Submit
    \/ SubmitRaise
    \/ ScopeExit
    \/ CreateComposite
    \/ ReturnCalcResult
    \/ \E in_place \in BOOLEAN : ResolveFields(in_place)
    \/ \E i \in 1..MaxDates, kind \in Kinds : Resolve(i, kind)
    \/ \E i \in 1..MaxDates : ChildDone(i)

Spec == Init /\ [][Next]_vars

\* The constructor on its own, over every argument set.
InitNew ==
    /\ args \in ArgSet
    /\ ctx = "new"
    /\ date_range = <<>>
    /\ end_used = {}
    /\ NothingCalled

\* HistoricalPricingContext.__init__
Construct ==
    /\ ctx = "new"
    /\ LET c == InitContext(args) IN
        /\ ctx' = IF c.ok THEN "constructed" ELSE "ValueError"
        /\ date_range' = c.range
        /\ end_used' = c.end
    /\ UNCHANGED <<args, pc, idx, scope, submit_exc, futures, submissions, created,
                   pending, cbs, compVars, prev_pending, rf_call>>

InitNext == Construct

InitSpec == InitNew /\ [][InitNext]_vars

----------------------------------------------------------------------------
(* Properties *)

N == Len(date_range)

AllChildrenFinished == \A i \in 1..Len(futures) : futures[i].state = "FINISHED"

ChildType(i) == futures[i].value.type

\* Every completion has been counted and nothing of the composite is left to run.
Quiescent == created /\ Len(futures) = N /\ AllChildrenFinished /\ cbs = {}

\* C1: the outward future is unresolved while a child is pending, and
\* _set_result has not run before all N children have resolved.
C1_OutwardAfterAllChildren ==
    (result_future.state # "PENDING" \/ fireCount > 0) =>
        (created /\ Len(futures) = N /\ AllChildrenFinished)

C1_Witness ==
    /\ result_future.state = "FINISHED"
    /\ N = MaxDates
    /\ AllChildrenFinished
    /\ pending = {}

\* C2: under every interleaving of child completions the composition is
\* triggered exactly once: never twice, the outward value is never set a
\* second time, and once every completion has been counted it has been
\* triggered (no completion is lost).
C2_SingleFire ==
    /\ fireCount <= 1
    /\ setCount <= 1
    /\ (fireCount = 1 => created /\ pending = {})
    /\ (Quiescent => fireCount = 1 /\ pending = {})

\* All MaxDates completions have been counted and the composition has run.
C2_Witness ==
    /\ Quiescent
    /\ fireCount = 1
    /\ setCount = 1
    /\ N = MaxDates
    /\ pc = "done"

\* The proper results share one shape (same variant, same measures).
SameShape ==
    \A i, j \in 1..Len(futures) :
        (ChildType(i) \in {"Single", "Multi"} /\ ChildType(j) \in {"Single", "Multi"}) =>
            /\ ChildType(i) = ChildType(j)
            /\ (ChildType(i) = "Multi" => DOMAIN futures[i].value.m = DOMAIN futures[j].value.m)

\* C3: with N >= 1 children, once every child has resolved with a result or
\* an ErrorValue and every completion has been handled, the outward future
\* is no longer pending (it is not left pending with nothing more to run).
C3_ResolvedWhenAllChildrenResolved ==
    (/\ Quiescent
     /\ N >= 1
     /\ \A i \in 1..N : ChildType(i) \in {"ErrorValue", "Single", "Multi"}
     /\ SameShape)
    => result_future.state # "PENDING"

\* C4: every list handed to compose holds, at position p, the value of the
\* child issued for date_range[p] (for a multi-measure base, that child's
\* value for the key composed), whatever the completion order; so does the
\* composed aggregate.
PositionalItems(items, k) ==
    \A p \in 1..Len(items) :
        /\ p <= Len(futures)
        /\ items[p].date = date_range[p]
        /\ IF futures[p].value.type = "Multi" /\ items[p].type = "Single"
           THEN items[p] = futures[p].value.m[k]
           ELSE items[p] = futures[p].value

C4_CompositionInDateOrder ==
    /\ \A c \in 1..Len(composeCalls) :
          PositionalItems(composeCalls[c].items, composeCalls[c].on.key)
    /\ (result_future.state = "FINISHED" /\ result_future.value.type = "Composed") =>
          /\ Len(result_future.value.items) = N
          /\ PositionalItems(result_future.value.items, "a")
    /\ (result_future.state = "FINISHED" /\ result_future.value.type = "Multi") =>
          \A k \in DOMAIN result_future.value.m :
              /\ Len(result_future.value.m[k].items) = N
              /\ PositionalItems(result_future.value.m[k].items, k)

\* Three dates given out of order, composed into one series.
C4_Witness ==
    /\ result_future.state = "FINISHED"
    /\ result_future.value.type = "Composed"
    /\ date_range = <<3, 2, 1>>
    /\ Len(composeCalls) = 1

\* C5: calc submits one computation per date, in date order, none twice, and
\* the list of child futures handed to the composite has length N with the
\* i-th future submitted under the scope pinned to the i-th date.
C5_OneChildPerDate ==
    /\ Len(submissions) <= N
    /\ submissions = SubSeq(date_range, 1, Len(submissions))
    /\ Len(futures) = Len(submissions)
    /\ \A i \in 1..Len(futures) : futures[i].date = date_range[i]
    /\ (pc \in {"construct", "return", "done"} \/ created) =>
          (Len(futures) = N /\ submissions = date_range)

C5_Witness ==
    /\ pc = "done"
    /\ date_range = <<2, 1, 3>>
    /\ Len(futures) = MaxDates
    /\ submissions = date_range

\* C6: when every child resolves with a MultipleRiskMeasureResult over the
\* same key set K, the outward value is a MultipleRiskMeasureResult with key
\* set exactly K whose value for k is compose of [result_1[k], ..., result_N[k]].
AllMultiSameKeys ==
    /\ N >= 1
    /\ \A i \in 1..N : ChildType(i) = "Multi"
    /\ \A i \in 1..N : DOMAIN futures[i].value.m = DOMAIN futures[1].value.m

C6_MultiAggregate ==
    (Quiescent /\ AllMultiSameKeys) =>
        /\ result_future.state = "FINISHED"
        /\ result_future.value.type = "Multi"
        /\ DOMAIN result_future.value.m = DOMAIN futures[1].value.m
        /\ \A k \in DOMAIN futures[1].value.m :
              result_future.value.m[k] = Compose([i \in 1..N |-> futures[i].value.m[k]])

C6_Witness ==
    /\ Quiescent
    /\ N = MaxDates
    /\ AllMultiSameKeys
    /\ DOMAIN futures[1].value.m = {"a", "b"}
    /\ result_future.state = "FINISHED"

\* The template: the earliest child value that is a proper result.
HasTemplate(t) ==
    /\ t \in 1..N
    /\ ChildType(t) \in {"Single", "Multi"}
    /\ \A j \in 1..(t - 1) : ChildType(j) \in {"ErrorValue", "Exception"}

\* C7: with a MultipleRiskMeasureResult template, child i an ErrorValue and
\* every other child a success, composition completes, the aggregate has a
\* value for every key of the template and the sequence composed for each key
\* holds the ErrorValue itself at position i.
C7_ErrorPassedUnindexed ==
    \A t, e \in 1..N :
        (/\ Quiescent
         /\ HasTemplate(t)
         /\ ChildType(t) = "Multi"
         /\ ChildType(e) = "ErrorValue"
         /\ \A j \in 1..N : j # e =>
               (ChildType(j) = "Multi" /\ DOMAIN futures[j].value.m = DOMAIN futures[t].value.m))
        =>
        /\ result_future.state = "FINISHED"
        /\ result_future.value.type = "Multi"
        /\ \A k \in DOMAIN futures[t].value.m :
              /\ k \in DOMAIN result_future.value.m
              /\ Len(result_future.value.m[k].items) = N
              /\ result_future.value.m[k].items[e] = futures[e].value

\* C8: when all N >= 1 children resolve with an ErrorValue, compose is not
\* invoked and the outward future is resolved, as a value, with the first
\* child's value itself.
AllErrorValues == N >= 1 /\ \A i \in 1..N : ChildType(i) = "ErrorValue"

C8_AllErrorsFirstVerbatim ==
    (Quiescent /\ AllErrorValues) =>
        /\ composeCalls = <<>>
        /\ ~composeRaised
        /\ result_future.state = "FINISHED"
        /\ result_future.value = futures[1].value
        /\ result_future.value = ErrorValue(date_range[1])

C8_Witness ==
    /\ Quiescent
    /\ AllErrorValues
    /\ N = MaxDates
    /\ result_future.state = "FINISHED"

\* C9: when the first successful result is a single-measure result, compose
\* is invoked once, on that template, with all N child values in child order,
\* every ErrorValue at its own position; with no multi-measure value among
\* them the outward value is the composition of that list.
C9_SingleComposeFullList ==
    \A t \in 1..N :
        (Quiescent /\ HasTemplate(t) /\ ChildType(t) = "Single") =>
            /\ Len(composeCalls) = 1
            /\ composeCalls[1].on = futures[t].value
            /\ ~composeCalls[1].raised
            /\ Len(composeCalls[1].items) = N
            /\ \A p \in 1..N : composeCalls[1].items[p] = futures[p].value
            /\ (\A p \in 1..N : ChildType(p) # "Multi") =>
                  /\ result_future.state = "FINISHED"
                  /\ result_future.value = Compose([p \in 1..N |-> futures[p].value])

\* The scenario [10, Error, 30]: dates 1, 2, 3 with the second failed.
C9_Witness ==
    /\ Quiescent
    /\ date_range = <<1, 2, 3>>
    /\ ChildType(1) = "Single"
    /\ ChildType(2) = "ErrorValue"
    /\ ChildType(3) = "Single"
    /\ Len(composeCalls) = 1
    /\ composeCalls[1].items[2] = ErrorValue(2)

\* C10: construction succeeds exactly when one of start and dates is supplied,
\* whatever end is; with only dates the date sequence is the dates as given,
\* in their order; with only start the sequence runs from start to end, and
\* end is today when it is None.
C10_ExactlyOneOfStartDates ==
    ctx # "new" =>
        /\ (ctx = "constructed") <=> ((args.start = {}) # (args.dates = {}))
        /\ (args.start # {} /\ args.dates # {}) => ctx = "ValueError"
        /\ (args.start = {} /\ args.dates = {}) => ctx = "ValueError"
        /\ (args.start = {} /\ args.dates # {}) =>
              (ctx = "constructed" /\ \A s \in args.dates : date_range = s)
        /\ (args.start # {} /\ args.dates = {}) =>
              /\ ctx = "constructed"
              /\ end_used = IF args.end = {} THEN {Today} ELSE args.end
              /\ \A s \in args.start, e \in end_used :
                    /\ Len(date_range) = IF e >= s THEN e - s + 1 ELSE 0
                    /\ \A i \in 1..Len(date_range) : date_range[i] = s + i - 1

\* __init__ has run on start alone and taken today as the end.
C10_Witness ==
    /\ ctx = "constructed"
    /\ args.start = {1}
    /\ args.end = {}
    /\ args.dates = {}
    /\ end_used = {Today}
    /\ Len(date_range) = MaxDates

\* C11: resolve_fields with in_place = TRUE fails with RuntimeError before
\* anything is delegated; with in_place = FALSE it does not raise and
\* delegates to the base context.
C11_ResolveFieldsInPlace ==
    rf_call.called =>
        /\ ctx = "constructed"
        /\ rf_call.in_place => (rf_call.raised /\ ~rf_call.delegated)
        /\ ~rf_call.in_place => (~rf_call.raised /\ rf_call.delegated)

\* An in-place call on a context built from dates, made after calc has
\* returned a composite that is still pending.
C11_Witness ==
    /\ rf_call.called
    /\ rf_call.in_place
    /\ rf_call.raised
    /\ args.dates # {}
    /\ N = MaxDates
    /\ pc = "done"
    /\ created
    /\ result_future.state = "PENDING"

\* C12: when composition raises after all children have resolved, the outward
\* future ends in a failed resolution carrying the failure; it is not left
\* pending.
C12_CompositionFailureDelivered ==
    composeRaised =>
        /\ result_future.state = "FAILED"
        /\ result_future.value = Raise

\* C13: whatever mix of results and ErrorValues the children resolve with,
\* the composite ends resolved carrying a value; an ErrorValue child never
\* makes the outward future fail.
C13_ErrorNeverFailsComposite ==
    (/\ Quiescent
     /\ N >= 1
     /\ \A i \in 1..N : ChildType(i) \in {"ErrorValue", "Single", "Multi"}
     /\ SameShape)
    => (result_future.state = "FINISHED" /\ ~composeRaised)

\* C14: with is_async = FALSE calc has not returned unless the outward future
\* is resolved, all N children resolved and the composition run; with
\* is_async = TRUE calc can return whatever the children's states.
C14_BlockingCalcWaits ==
    /\ (pc = "done" /\ ~args.is_async) =>
          /\ created
          /\ result_future.state = "FINISHED"
          /\ Len(futures) = N
          /\ AllChildrenFinished
          /\ fireCount = 1
    /\ (pc = "return" /\ args.is_async) => ENABLED ReturnCalcResult

C14_Witness ==
    /\ pc = "done"
    /\ ~args.is_async
    /\ N = MaxDates
    /\ result_future.state = "FINISHED"

\* C15: the date sequence is the one fixed at construction, whatever calc and
\* resolve_fields calls were made; each calc call issues those dates in that
\* order, and it starts from an empty list of child futures, so that its list
\* holds one future per submission of that call and none of an earlier call,
\* also when the outward future of the earlier call is still pending.
C15_StateOfCalls ==
    /\ date_range = InitContext(args).range
    /\ Len(futures) = Len(submissions)
    /\ \A i \in 1..Len(futures) : futures[i].date = submissions[i]
    /\ (pc \in {"construct", "return", "done"} \/ created) =>
          /\ submissions = date_range
          /\ Len(futures) = N
          /\ \A i \in 1..N : futures[i].date = date_range[i]

C15_CallStartsAfresh ==
    (CallerFree /\ pc' \in {"enter", "construct"}) =>
        (futures' = <<>> /\ submissions' = <<>> /\ ~created'
            /\ result_future'.state = "PENDING")

C15_DateRangeFixed ==
    /\ [](C15_StateOfCalls)
    /\ [][date_range' = date_range /\ C15_CallStartsAfresh]_vars

\* A calc call made while the outward future of the call before it was still
\* pending has issued the same dates again, into a list of its own.
C15_Witness ==
    /\ prev_pending
    /\ pc = "construct"
    /\ N = MaxDates
    /\ submissions = date_range
    /\ Len(futures) = N
    /\ \A i \in 1..N : futures[i].date = date_range[i]

\* C16: the template is the earliest child value that is neither an
\* ErrorValue nor an Exception, and with a MultipleRiskMeasureResult template
\* the aggregate's key set is the template's: keys of later results only are
\* absent.
C16_TemplateIsFirstProper ==
    \A t \in 1..N :
        (Quiescent /\ HasTemplate(t)) =>
            /\ composeCalls # <<>>
            /\ composeCalls[1].on.date = futures[t].date
            /\ IF ChildType(t) = "Multi"
               THEN /\ \E k \in DOMAIN futures[t].value.m :
                          composeCalls[1].on = futures[t].value.m[k]
                    /\ result_future.state = "FINISHED" =>
                          /\ result_future.value.type = "Multi"
                          /\ DOMAIN result_future.value.m = DOMAIN futures[t].value.m
               ELSE composeCalls[1].on = futures[t].value

\* A later result carries the extra key "b"; the aggregate has only "a".
C16_Witness ==
    /\ Quiescent
    /\ N = MaxDates
    /\ \A i \in 1..N : ChildType(i) = "Multi"
    /\ DOMAIN futures[1].value.m = {"a"}
    /\ DOMAIN futures[2].value.m = {"a", "b"}
    /\ result_future.state = "FINISHED"
    /\ DOMAIN result_future.value.m = {"a"}

\* C17: during calc at most one per-date scope is open, it is the scope of the
\* current date and serves one submission; it is closed before the next is
\* opened and when the submission raises, after which no later date is
\* submitted and no composite is created.
C17_OneScopeAtATime ==
    /\ Cardinality(scope) <= 1
    /\ (pc \in {"submit", "exit"}) => scope = {date_range[idx]}
    /\ (pc \notin {"submit", "exit"}) => scope = {}
    /\ (pc = "submit") => Len(submissions) = idx - 1
    /\ (pc = "exit" /\ ~submit_exc) => Len(submissions) = idx
    /\ (pc \in {"exit", "raised"} /\ submit_exc) =>
          /\ Len(submissions) = idx - 1
          /\ Len(futures) = idx - 1
          /\ ~created
          /\ fireCount = 0

\* The submission of the second of three dates raised.
C17_Witness ==
    /\ pc = "raised"
    /\ submit_exc
    /\ N = MaxDates
    /\ idx = 2
    /\ scope = {}

\* C18: dates = [] is accepted; calc then builds a composite over no child
\* and the composition raises instead of setting a value on the outward
\* future.
C18_EmptyDates ==
    (args.start = {} /\ args.dates = {<<>>}) =>
        /\ ctx = "constructed"
        /\ N = 0
        /\ created =>
              /\ Len(futures) = 0
              /\ fireCount = 1
              /\ composeRaised
              /\ composeCalls = <<>>
              /\ setCount = 0
              /\ result_future.state = "PENDING"
              /\ result_future.value = NoValue

C18_Witness ==
    /\ args.dates = {<<>>}
    /\ created
    /\ composeRaised
    /\ fireCount = 1

\* C19: with a MultipleRiskMeasureResult template every child value is
\* indexed by every template key; a child that cannot be indexed by one of
\* them makes the composition raise at that key and the outward future gets
\* no composed value.
Indexable(j, K) ==
    IF ChildType(j) = "Multi" THEN K \subseteq DOMAIN futures[j].value.m ELSE FALSE

C19_MissingKeyRaises ==
    \A t \in 1..N :
        (/\ Quiescent
         /\ HasTemplate(t)
         /\ ChildType(t) = "Multi"
         /\ \E j \in 1..N : ~Indexable(j, DOMAIN futures[t].value.m))
        =>
        /\ composeRaised
        /\ setCount = 0
        /\ result_future.state = "PENDING"
        /\ result_future.value = NoValue
        /\ composeCalls # <<>>
        /\ composeCalls[Len(composeCalls)].raised
        /\ \A c \in 1..(Len(composeCalls) - 1) : ~composeCalls[c].raised

\* The second result lacks the key "b" of the template.
C19_Witness ==
    /\ Quiescent
    /\ N >= 2
    /\ ChildType(1) = "Multi"
    /\ ChildType(2) = "Multi"
    /\ DOMAIN futures[1].value.m = {"a", "b"}
    /\ DOMAIN futures[2].value.m = {"a"}
    /\ composeRaised
    /\ Len(composeCalls) = 2
    /\ composeCalls[2].on.key = "b"

====
